---- MODULE Spec2Model ----
(***************************************************************************)
(* Model of libbeat/processors/urlparse/urlparse.go: the urlparse          *)
(* processor.  New builds a urlParse from a raw configuration; Run applies *)
(* the configured from/to mappings to one event, one parseField call per   *)
(* mapping, and either rolls the event back on the first error             *)
(* (FailOnError) or carries on with the next mapping.                      *)
(*                                                                         *)
(* Event fields are common.MapStr values: a map from keys to strings,      *)
(* numbers or nested maps.  A dotted key "c.a" is modelled by its          *)
(* segments <<"c", "a">>; the empty string is <<>>.                        *)
(***************************************************************************)
EXTENDS Integers, Sequences, FiniteSets, TLC

VARIABLES
    raw,      \* the raw configuration handed to the constructor
    p,        \* the urlParse processor: its config, or NoProcessor
    newErr,   \* the error returned by the constructor
    pc,       \* "config" | "rejected" | "idle" | "loop" | "done" | "failed"
    input,    \* event.Fields as the caller passed them to Run
    event,    \* event.Fields
    backup,   \* Run's local backup
    idx,      \* position of Run's range loop in p.config.Fields
    err,      \* the error Run returns
    calls,    \* the parseField calls Run has made, in the order made
    log       \* messages given to p.log.Debug

vars == <<raw, p, newErr, pc, input, event, backup, idx, err, calls, log>>

(***************************************************************************)
(* Bounds                                                                  *)
(***************************************************************************)
MaxFields == 3
MaxRawFields == 2

(***************************************************************************)
(* Values held by an event                                                 *)
(***************************************************************************)
Str(s) == [t |-> "str", s |-> s]
Num(n) == [t |-> "num", n |-> n]
MapStr(m) == [t |-> "map", m |-> m]
EmptyMap == [k \in {} |-> Str("")]

TypeName(v) ==
    CASE v.t = "str" -> "string"
      [] v.t = "num" -> "int"
      [] v.t = "map" -> "common.MapStr"

RECURSIVE Join(_)
Join(path) ==
    IF Len(path) = 0 THEN ""
    ELSE IF Len(path) = 1 THEN path[1]
    ELSE path[1] \o "." \o Join(Tail(path))

Nil == [kind |-> "nil", msg |-> ""]
Error(kind, msg) == [kind |-> kind, msg |-> msg]

ErrKeyNotFound == Error("ErrKeyNotFound", "key not found")
ErrNotMap(v) == Error("ErrNotMap", "expected map but type is " \o TypeName(v))

Found(v) == [err |-> Nil, v |-> v]
NotFound(e) == [err |-> e]

\* The segments of a dotted key; the empty key has the one segment "".
Segments(path) == IF path = <<>> THEN <<"">> ELSE path

\* MapStr.GetValue: walk the segments; a missing key is ErrKeyNotFound, a
\* segment that holds something other than a map is a different error.
RECURSIVE Walk(_, _)
Walk(m, segs) ==
    LET k == Head(segs) IN
    IF k \notin DOMAIN m THEN NotFound(ErrKeyNotFound)
    ELSE IF Len(segs) = 1 THEN Found(m[k])
    ELSE IF m[k].t # "map" THEN NotFound(ErrNotMap(m[k]))
    ELSE Walk(m[k].m, Tail(segs))

GetValue(m, path) == Walk(m, Segments(path))

Store(m, k, v) == [y \in DOMAIN m \cup {k} |-> IF y = k THEN v ELSE m[y]]

\* MapStr.Put: walk the segments creating the maps that are missing; writing
\* through a segment that holds something other than a map fails and leaves
\* the map as it was.  The last segment is overwritten.
RECURSIVE WalkPut(_, _, _)
WalkPut(m, segs, v) ==
    LET k == Head(segs) IN
    IF Len(segs) = 1 THEN [err |-> Nil, m |-> Store(m, k, v)]
    ELSE IF k \notin DOMAIN m
         THEN LET sub == WalkPut(EmptyMap, Tail(segs), v)
              IN  [err |-> sub.err, m |-> Store(m, k, MapStr(sub.m))]
    ELSE IF m[k].t # "map" THEN [err |-> ErrNotMap(m[k]), m |-> m]
    ELSE LET sub == WalkPut(m[k].m, Tail(segs), v)
         IN  [err |-> sub.err,
              m |-> IF sub.err = Nil THEN Store(m, k, MapStr(sub.m)) ELSE m]

PutValue(m, path, v) == WalkPut(m, Segments(path), v)

\* MapStr.Clone: a copy that shares no map with the original.
RECURSIVE Clone(_)
Clone(m) ==
    [k \in DOMAIN m |-> IF m[k].t = "map" THEN MapStr(Clone(m[k].m)) ELSE m[k]]

(***************************************************************************)
(* net/url on the strings the events hold                                  *)
(***************************************************************************)
UrlFull == "https://example.com:8443/a/b?x=1#frag"
UrlEscaped == "/a%2Fb?q=1"
UrlBad == "http://example.com/%zz"

URL(scheme, opaque, host, path, rawPath, rawQuery, fragment) ==
    [Scheme |-> scheme, Opaque |-> opaque, Host |-> host, Path |-> path,
     RawPath |-> rawPath, RawQuery |-> rawQuery, Fragment |-> fragment]

UrlParse(s) ==
    CASE s = UrlFull ->
           [err |-> Nil,
            url |-> URL("https", "", "example.com:8443", "/a/b", "", "x=1", "frag")]
      [] s = UrlEscaped ->
           [err |-> Nil, url |-> URL("", "", "", "/a/b", "/a%2Fb", "q=1", "")]
      [] s = UrlBad ->
           [err |-> Error("url.Error",
                          "parse \"" \o s \o "\": invalid URL escape \"%zz\"")]

Hostname(u) ==
    CASE u.Host = "example.com:8443" -> "example.com"
      [] u.Host = "" -> ""

Port(u) ==
    CASE u.Host = "example.com:8443" -> "8443"
      [] u.Host = "" -> ""

\* URL.String() gives these URLs back as they were written.
UrlString(u) ==
    CASE u.Scheme = "https" -> UrlFull
      [] u.Scheme = "" -> UrlEscaped

(***************************************************************************)
(* The processor                                                           *)
(***************************************************************************)
fromTo(from, to) == [From |-> from, To |-> to]

urlParseConfig(fields, ignoreMissing, failOnError) ==
    [Fields |-> fields, IgnoreMissing |-> ignoreMissing, FailOnError |-> failOnError]

\* parseField: the target of the write.
Target(from, to) == IF to = <<>> THEN from ELSE to

\* The object without its raw_path.
DecomposedNoRawPath(u) ==
    MapStr([scheme    |-> Str(u.Scheme),
            opaque    |-> Str(u.Opaque),
            hostname  |-> Str(Hostname(u)),
            port      |-> Str(Port(u)),
            path      |-> Str(u.Path),
            raw_query |-> Str(u.RawQuery),
            fragment  |-> Str(u.Fragment)])

\* parseField: the object written to the target.
Decomposed(u) ==
    MapStr([scheme    |-> Str(u.Scheme),
            opaque    |-> Str(u.Opaque),
            hostname  |-> Str(Hostname(u)),
            port      |-> Str(Port(u)),
            path      |-> Str(u.Path),
            raw_path  |-> Str(u.RawPath),
            raw_query |-> Str(u.RawQuery),
            fragment  |-> Str(u.Fragment)])

NoWrite == MapStr(EmptyMap)
Returned(e, ev) == [err |-> e, ev |-> ev, wrote |-> FALSE, value |-> NoWrite]

\* No failed lookup is passed over.
IgnoredNever(cfg, e) == FALSE

\* parseField: whether a failed lookup is passed over.
Ignored(cfg, e) == cfg.IgnoreMissing /\ e = ErrKeyNotFound

\* The lookup made in the event as Run received it.
parseFieldStale(cfg, from, to, ev) ==
    LET got == GetValue(input, from) IN
    IF got.err # Nil
    THEN IF Ignored(cfg, got.err)
         THEN Returned(Nil, ev)
         ELSE Returned(Error("fetch", "could not fetch value for key: " \o Join(from)
                                      \o ", Error: " \o got.err.msg), ev)
    ELSE IF got.v.t # "str"
    THEN Returned(Error("type", "invalid type for from, expecting a string received "
                                \o TypeName(got.v)), ev)
    ELSE LET parsed == UrlParse(got.v.s) IN
    IF parsed.err # Nil
    THEN Returned(Error("parse", "error trying to URL-parse " \o got.v.s \o ": "
                                 \o parsed.err.msg), ev)
    ELSE LET target == Target(from, to)
             value == Decomposed(parsed.url)
             put == PutValue(ev, target, value) IN
    IF put.err # Nil
    THEN Returned(Error("put", "could not put value: " \o UrlString(parsed.url) \o ": "
                               \o Join(target) \o ", " \o put.err.msg), put.m)
    ELSE [err |-> Nil, ev |-> put.m, wrote |-> TRUE, value |-> value]

parseField(cfg, from, to, ev) ==
    LET got == GetValue(ev, from) IN
    IF got.err # Nil
    THEN IF Ignored(cfg, got.err)
         THEN Returned(Nil, ev)
         ELSE Returned(Error("fetch", "could not fetch value for key: " \o Join(from)
                                      \o ", Error: " \o got.err.msg), ev)
    ELSE IF got.v.t # "str"
    THEN Returned(Error("type", "invalid type for from, expecting a string received "
                                \o TypeName(got.v)), ev)
    ELSE LET parsed == UrlParse(got.v.s) IN
    IF parsed.err # Nil
    THEN Returned(Error("parse", "error trying to URL-parse " \o got.v.s \o ": "
                                 \o parsed.err.msg), ev)
    ELSE LET target == Target(from, to)
             value == Decomposed(parsed.url)
             put == PutValue(ev, target, value) IN
    IF put.err # Nil
    THEN Returned(Error("put", "could not put value: " \o UrlString(parsed.url) \o ": "
                               \o Join(target) \o ", " \o put.err.msg), put.m)
    ELSE [err |-> Nil, ev |-> put.m, wrote |-> TRUE, value |-> value]

\* Run: the message logged and attached for a failed mapping.
ErrMsg(e) == "failed to parse fields in urlparse processor: " \o e.msg

ErrorMessageKey == <<"error", "message">>

\* The mappings taken from the last to the first.
FieldReversed(cfg, i) == cfg.Fields[Len(cfg.Fields) + 1 - i]

\* Run: the mapping the loop is at.
Field(cfg, i) == cfg.Fields[i]

\* Every failure ends the invocation.
HaltsAlways(cfg) == TRUE

\* No failure ends the invocation.
HaltsNever(cfg) == FALSE

\* Run: whether a failed mapping ends the invocation.
Halts(cfg) == cfg.FailOnError

\* The event keeps the fields the mappings have left.
RestoredNot(ev, bk) == ev

\* Run: the fields the event is given back when a mapping has failed.
Restored(ev, bk) == bk

(***************************************************************************)
(* Construction                                                            *)
(***************************************************************************)
Absent == [set |-> FALSE]
Opt(v) == [set |-> TRUE, v |-> v]
OrElse(o, d) == IF o.set THEN o.v ELSE d

NoProcessor == urlParseConfig(<<>>, FALSE, FALSE)

\* Config.Unpack into urlParseConfig: the validate:"required" tags reject a
\* missing or empty fields list and a missing or empty from; options that
\* are not set keep the value the struct had, keys without a struct field
\* are passed over.
Unpack(config, c) ==
    IF ~c.fields.set
    THEN [err |-> Error("unpack", "missing required field accessing 'fields'"),
          config |-> config]
    ELSE IF c.fields.v = <<>>
    THEN [err |-> Error("unpack", "empty field accessing 'fields'"), config |-> config]
    ELSE IF \E i \in DOMAIN c.fields.v : ~c.fields.v[i].from.set
    THEN [err |-> Error("unpack", "missing required field accessing 'fields.from'"),
          config |-> config]
    ELSE IF \E i \in DOMAIN c.fields.v : c.fields.v[i].from.v = <<>>
    THEN [err |-> Error("unpack", "string value is not set accessing 'fields.from'"),
          config |-> config]
    ELSE [err |-> Nil,
          config |-> urlParseConfig(
              [i \in DOMAIN c.fields.v |->
                  fromTo(c.fields.v[i].from.v, OrElse(c.fields.v[i].to, <<>>))],
              OrElse(c.ignore_missing, config.IgnoreMissing),
              OrElse(c.fail_on_error, config.FailOnError))]

\* New
NewProcessor(c) ==
    LET config == urlParseConfig(<<>>, FALSE, TRUE)
        unpacked == Unpack(config, c) IN
    IF unpacked.err # Nil
    THEN [err |-> Error("new", "failed to unpack the configuration of urlparse processor: "
                               \o unpacked.err.msg),
          p |-> NoProcessor]
    ELSE [err |-> Nil, p |-> unpacked.config]

\* checks.ConfigChecked(New, RequireFields("fields"),
\*                      AllowedFields("fields", "ignore_missing", "fail_on_error"))
ConfigChecked(c) ==
    IF ~c.fields.set
    THEN [err |-> Error("checks", "missing fields option in processor"), p |-> NoProcessor]
    ELSE IF c.unknown
    THEN [err |-> Error("checks", "unexpected unknown option in processor"),
          p |-> NoProcessor]
    ELSE NewProcessor(c)

(***************************************************************************)
(* Inputs                                                                  *)
(***************************************************************************)
SeqsUpTo(S, n) == UNION {[1..k -> S] : k \in 0..n}

Flag == {Absent, Opt(TRUE), Opt(FALSE)}

RawEntries ==
    [from : {Absent, Opt(<<>>), Opt(<<"a">>), Opt(<<"b">>)},
     to   : {Absent, Opt(<<"c">>)}]

RawConfigs ==
    [fields         : {Absent} \cup {Opt(f) : f \in SeqsUpTo(RawEntries, MaxRawFields)},
     ignore_missing : Flag,
     fail_on_error  : Flag,
     unknown        : BOOLEAN]

NoRaw == [fields |-> Absent, ignore_missing |-> Absent, fail_on_error |-> Absent,
          unknown |-> FALSE]

\* The mappings of the plans: a target left empty, a target that is another
\* mapping's source, one target shared by two sources, a nested target.
Mappings ==
    {fromTo(<<"a">>, <<>>), fromTo(<<"a">>, <<"b">>), fromTo(<<"a">>, <<"c">>),
     fromTo(<<"b">>, <<>>), fromTo(<<"b">>, <<"c">>), fromTo(<<"b">>, <<"c", "a">>)}

Plans ==
    {urlParseConfig(f, im, fe) :
        f \in SeqsUpTo(Mappings, MaxFields) \ {<<>>}, im \in BOOLEAN, fe \in BOOLEAN}

OldError == MapStr([message |-> Str("old"), code |-> Num(7)])

Events ==
    {EmptyMap,
     [a |-> Str(UrlFull)],
     [a |-> Num(42)],
     [b |-> Str(UrlEscaped)],
     [a |-> Str(UrlFull), b |-> Str(UrlEscaped)],
     [a |-> Str(UrlFull), b |-> Str(UrlBad)],
     [a |-> Str(UrlFull), b |-> Num(42)],
     [a |-> Str(UrlFull), b |-> Str(UrlEscaped), c |-> Num(42)],
     [a |-> Str(UrlFull), b |-> Str(UrlEscaped), c |-> MapStr([z |-> Str("kept")])],
     [a |-> Str(UrlFull), error |-> Str("boom")],
     [a |-> Str(UrlFull), b |-> Str(UrlEscaped), error |-> Str("boom")],
     [a |-> Str(UrlFull), error |-> OldError],
     [a |-> Str(UrlFull), b |-> Str(UrlEscaped), error |-> OldError]}

(***************************************************************************)
(* Initial states                                                          *)
(***************************************************************************)
NoRun ==
    /\ input = EmptyMap
    /\ event = EmptyMap
    /\ backup = EmptyMap
    /\ idx = 0
    /\ err = Nil
    /\ calls = <<>>
    /\ log = <<>>

\* A processor that New has returned.
Init ==
    /\ raw = NoRaw
    /\ p \in Plans
    /\ newErr = Nil
    /\ pc = "idle"
    /\ NoRun

\* A raw configuration about to be handed to a constructor.
InitNew ==
    /\ raw \in RawConfigs
    /\ p = NoProcessor
    /\ newErr = Nil
    /\ pc = "config"
    /\ NoRun

(***************************************************************************)
(* Actions                                                                 *)
(***************************************************************************)
Constructed(r) ==
    /\ p' = r.p
    /\ newErr' = r.err
    /\ pc' = IF r.err = Nil THEN "idle" ELSE "rejected"
    /\ UNCHANGED <<raw, input, event, backup, idx, err, calls, log>>

\* The constructor registered as the "urlparse" processor.
NewPlugin ==
    /\ pc = "config"
    /\ Constructed(ConfigChecked(raw))

\* The constructor registered as the JavaScript "URLParse" processor.
NewJS ==
    /\ pc = "config"
    /\ Constructed(NewProcessor(raw))

\* Run, up to the loop.
RunStart ==
    /\ pc = "idle"
    /\ \E e \in Events :
          /\ input' = e
          /\ event' = e
          /\ backup' = IF p.FailOnError THEN Clone(e) ELSE EmptyMap
    /\ idx' = 1
    /\ pc' = "loop"
    /\ UNCHANGED <<raw, p, newErr, err, calls, log>>

\* Run, one pass of the loop.
RunLoop ==
    /\ pc = "loop"
    /\ idx <= Len(p.Fields)
    /\ LET field == Field(p, idx)
           r == parseField(p, field.From, field.To, event)
       IN  /\ calls' = Append(calls, [i |-> idx, From |-> field.From, To |-> field.To,
                                      err |-> r.err, wrote |-> r.wrote,
                                      value |-> r.value])
           /\ IF r.err # Nil
              THEN /\ log' = Append(log, ErrMsg(r.err))
                   /\ IF Halts(p)
                      THEN /\ event' = PutValue(Restored(r.ev, backup), ErrorMessageKey,
                                                Str(ErrMsg(r.err))).m
                           /\ err' = r.err
                           /\ pc' = "failed"
                           /\ idx' = idx
                      ELSE /\ event' = r.ev
                           /\ idx' = idx + 1
                           /\ UNCHANGED <<err, pc>>
              ELSE /\ event' = r.ev
                   /\ idx' = idx + 1
                   /\ UNCHANGED <<err, pc, log>>
    /\ UNCHANGED <<raw, p, newErr, input, backup>>

\* Run, the return after the loop.
RunReturn ==
    /\ pc = "loop"
    /\ idx > Len(p.Fields)
    /\ err' = Nil
    /\ pc' = "done"
    /\ UNCHANGED <<raw, p, newErr, input, event, backup, idx, calls, log>>

Next == RunStart \/ RunLoop \/ RunReturn

Spec == Init /\ [][Next]_vars

NextNew == NewPlugin \/ NewJS

SpecNew == InitNew /\ [][NextNew]_vars

TypeOK ==
    /\ pc \in {"config", "rejected", "idle", "loop", "done", "failed"}
    /\ idx \in 0..(MaxFields + 1)
    /\ Len(calls) <= MaxFields

(***************************************************************************)
(* Vocabulary of the properties                                            *)
(***************************************************************************)
IsPrefix(q, r) == Len(q) <= Len(r) /\ SubSeq(r, 1, Len(q)) = q
Overlap(q, r) == IsPrefix(q, r) \/ IsPrefix(r, q)
Last(S) == CHOOSE n \in S : \A o \in S : o <= n

\* The fields of an event: every path that holds a value other than a map,
\* with the value.
RECURSIVE Leaves(_)
Leaves(m) ==
    UNION {IF m[k].t = "map"
           THEN {<<(<<k>> \o l[1]), l[2]>> : l \in Leaves(m[k].m)}
           ELSE {<<(<<k>>), m[k]>>} : k \in DOMAIN m}

ExceptUnder(ev, paths) ==
    {l \in Leaves(ev) : \A q \in paths : ~IsPrefix(q, l[1])}

TargetOf(f) == Target(f.From, f.To)
Targets(cfg) == {TargetOf(cfg.Fields[i]) : i \in DOMAIN cfg.Fields}

EightKeys ==
    {"scheme", "opaque", "hostname", "port", "path", "raw_path", "raw_query", "fragment"}

IsDecomposition(got) ==
    /\ got.err = Nil
    /\ got.v.t = "map"
    /\ DOMAIN got.v.m = EightKeys
    /\ \A k \in EightKeys : got.v.m[k].t = "str"

Returns == pc \in {"done", "failed"}
Failed(c) == c.err # Nil
Skipped(c) == c.err = Nil /\ ~c.wrote

(***************************************************************************)
(* C1                                                                      *)
(***************************************************************************)
\* C1: with fail_on_error set, once a mapping has failed the returned event
\* has the fields of the input event, error.message aside, whatever the
\* earlier mappings had written.
C1_StrictRollback ==
    (p.FailOnError /\ \E n \in DOMAIN calls : Failed(calls[n]))
        => /\ pc = "failed"
           /\ ExceptUnder(event, {ErrorMessageKey}) = ExceptUnder(input, {ErrorMessageKey})

\* A failure after a mapping had written a value the input did not hold.
C1_Witness ==
    /\ p.FailOnError
    /\ pc = "failed"
    /\ Len(calls) >= 2
    /\ calls[1].wrote
    /\ GetValue(input, TargetOf(calls[1])) # Found(calls[1].value)
    /\ GetValue(event, ErrorMessageKey) = Found(Str(ErrMsg(err)))

(***************************************************************************)
(* C2                                                                      *)
(***************************************************************************)
\* Every source of the plan is present in the event and holds a string that
\* parses.
SourcesParse(cfg, ev) ==
    \A i \in DOMAIN cfg.Fields :
        LET got == GetValue(ev, cfg.Fields[i].From) IN
        /\ got.err = Nil
        /\ got.v.t = "str"
        /\ UrlParse(got.v.s).err = Nil

\* Every target holds a decomposed URL and nothing outside the targets has
\* changed.
TargetsWritten(cfg, in, out) ==
    /\ \A t \in Targets(cfg) : IsDecomposition(GetValue(out, t))
    /\ ExceptUnder(out, Targets(cfg)) = ExceptUnder(in, Targets(cfg))

\* No mapping reads a path that an earlier mapping writes at, under or above.
NoSourceOverwritten(cfg) ==
    \A j, k \in DOMAIN cfg.Fields :
        j < k => ~Overlap(TargetOf(cfg.Fields[j]), cfg.Fields[k].From)

\* No target lies inside another target.
NoTargetNested(cfg) ==
    \A j, k \in DOMAIN cfg.Fields :
        LET tj == TargetOf(cfg.Fields[j])
            tk == TargetOf(cfg.Fields[k])
        IN  tj = tk \/ ~Overlap(tj, tk)

\* No target runs through a value of the event that is not a map.
TargetsWritable(cfg, ev) ==
    \A t \in Targets(cfg) : \A n \in 1..(Len(t) - 1) :
        LET got == GetValue(ev, SubSeq(t, 1, n)) IN
        got.err = Nil => got.v.t = "map"

\* C2 as claimed: with fail_on_error set and every source present and
\* parseable in the input event, Run returns no error, every target holds
\* the eight components and no other field differs from the input.
C2_Claimed ==
    (Returns /\ p.FailOnError /\ SourcesParse(p, input))
        => /\ pc = "done"
           /\ err = Nil
           /\ TargetsWritten(p, input, event)

\* C2 amended: the same, for the plans in which no mapping reads a path an
\* earlier mapping writes to, no target lies inside another and no target
\* runs through a value of the input that is not a map.
C2_StrictSuccess ==
    (Returns /\ p.FailOnError /\ SourcesParse(p, input)
             /\ NoSourceOverwritten(p) /\ NoTargetNested(p)
             /\ TargetsWritable(p, input))
        => /\ pc = "done"
           /\ err = Nil
           /\ TargetsWritten(p, input, event)

\* A strict run of two mappings with different targets, both written.
C2_Witness ==
    /\ pc = "done"
    /\ p.FailOnError
    /\ SourcesParse(p, input)
    /\ NoSourceOverwritten(p) /\ NoTargetNested(p) /\ TargetsWritable(p, input)
    /\ Cardinality(Targets(p)) >= 2
    /\ \A n \in DOMAIN calls : calls[n].wrote
    /\ TargetsWritten(p, input, event)

(***************************************************************************)
(* C3                                                                      *)
(***************************************************************************)
\* The writes of the successful calls, made one after the other.
RECURSIVE Applied(_, _)
Applied(ev, cs) ==
    IF cs = <<>> THEN ev
    ELSE Applied(IF Head(cs).wrote
                 THEN PutValue(ev, TargetOf(Head(cs)), Head(cs).value).m
                 ELSE ev,
                 Tail(cs))

\* No call after call n has written at, under or above the target of n.
NotOverwritten(n) ==
    \A o \in DOMAIN calls :
        (o > n /\ calls[o].wrote) => ~Overlap(TargetOf(calls[o]), TargetOf(calls[n]))

BestEffort(keeps(_)) ==
    ~p.FailOnError
        => /\ pc # "failed"
           /\ err = Nil
           /\ pc = "done" =>
                 /\ event = Applied(input, calls)
                 /\ \A n \in DOMAIN calls :
                       (calls[n].wrote /\ keeps(n))
                           => GetValue(event, TargetOf(calls[n])) = Found(calls[n].value)
                 /\ GetValue(event, ErrorMessageKey) = GetValue(input, ErrorMessageKey)

Always(n) == TRUE

\* C3 as claimed: with fail_on_error unset Run returns no error, a mapping
\* that fails writes nothing, every mapping that succeeds has its write in
\* the returned event, and no error.message is added.
C3_Claimed == BestEffort(Always)

\* C3 amended: the same, a write staying in the returned event unless a later
\* successful mapping writes to the same path, to a path inside it or to a
\* path that contains it.
C3_BestEffort == BestEffort(NotOverwritten)

\* A best-effort run in which a write is followed by a failure.
C3_Witness ==
    /\ ~p.FailOnError
    /\ pc = "done"
    /\ \E j, k \in DOMAIN calls :
          /\ j < k
          /\ calls[j].wrote
          /\ NotOverwritten(j)
          /\ Failed(calls[k])
          /\ GetValue(input, TargetOf(calls[j])) # Found(calls[j].value)

(***************************************************************************)
(* C4                                                                      *)
(***************************************************************************)
\* C4: with ignore_missing set, a mapping whose source is not found writes
\* nothing, records no error, does not end the invocation, with or without
\* fail_on_error, and the loop goes on to the next mapping.
C4_IgnoreMissing ==
    [][(/\ pc = "loop"
        /\ idx <= Len(p.Fields)
        /\ p.IgnoreMissing
        /\ GetValue(event, p.Fields[idx].From).err = ErrKeyNotFound)
           => /\ event' = event
              /\ err' = Nil
              /\ log' = log
              /\ pc' = "loop"
              /\ idx' = idx + 1]_vars

\* A strict run that passed over a missing source and then wrote a later
\* mapping.
C4_Witness ==
    /\ p.FailOnError
    /\ p.IgnoreMissing
    /\ pc = "done"
    /\ \E j, k \in DOMAIN calls :
          /\ j < k
          /\ Skipped(calls[j])
          /\ GetValue(input, calls[j].From).err = ErrKeyNotFound
          /\ calls[k].wrote
    /\ GetValue(event, ErrorMessageKey).err = ErrKeyNotFound

(***************************************************************************)
(* C5                                                                      *)
(***************************************************************************)
\* The calls made are those of the first mappings of the plan, in order.
InOrder ==
    \A n \in DOMAIN calls :
        /\ n <= Len(p.Fields)
        /\ calls[n].i = n
        /\ fromTo(calls[n].From, calls[n].To) = p.Fields[n]

\* C5: with fail_on_error set, the first mapping that fails is the last one
\* looked at, Run returns its error, and nothing happens after the return.
C5_FirstFailureEnds ==
    /\ [](p.FailOnError =>
            /\ InOrder
            /\ \A n \in DOMAIN calls :
                  Failed(calls[n]) =>
                      /\ n = Len(calls)
                      /\ pc = "failed"
                      /\ err = calls[n].err
            /\ pc = "failed" => Failed(calls[Len(calls)])
            /\ pc = "done" => Len(calls) = Len(p.Fields))
    /\ [][pc = "failed" => UNCHANGED vars]_vars

\* A strict run ended by a mapping that is not the last of the plan.
C5_Witness ==
    /\ p.FailOnError
    /\ pc = "failed"
    /\ Len(calls) < Len(p.Fields)
    /\ Failed(calls[Len(calls)])

(***************************************************************************)
(* C6                                                                      *)
(***************************************************************************)
\* C6: with fail_on_error set, Run returns an error exactly when a mapping
\* has failed, and the event it returns with an error holds the message at
\* error.message.
C6_Claimed ==
    (Returns /\ p.FailOnError)
        => /\ err # Nil <=> \E n \in DOMAIN calls : Failed(calls[n])
           /\ err # Nil => GetValue(event, ErrorMessageKey) = Found(Str(ErrMsg(err)))

(***************************************************************************)
(* C7                                                                      *)
(***************************************************************************)
\* The successful calls that wrote to target t.
Writers(t) == {n \in DOMAIN calls : calls[n].wrote /\ TargetOf(calls[n]) = t}

LastWins(wins(_)) ==
    /\ InOrder
    /\ Returns =>
          \A t \in Targets(p) :
              (Cardinality(Writers(t)) >= 2 /\ wins(Last(Writers(t))))
                  => GetValue(event, t) = Found(calls[Last(Writers(t))].value)

\* C7 as claimed: the mappings are applied in configured order, and a path
\* that two successful mappings wrote to holds, in the returned event, the
\* object of the later one.
C7_Claimed == LastWins(Always)

Kept(n) == pc = "done" /\ NotOverwritten(n)

\* C7 amended: the same, when Run returns without an error and no mapping
\* after the later one has written to a path inside that path or containing
\* it.
C7_LastWins == LastWins(Kept)

\* Two mappings with different sources wrote to one path.
C7_Witness ==
    /\ pc = "done"
    /\ \E t \in Targets(p) :
          /\ Cardinality(Writers(t)) >= 2
          /\ Kept(Last(Writers(t)))
          /\ \E n \in Writers(t) : calls[n].value # calls[Last(Writers(t))].value
          /\ GetValue(event, t) = Found(calls[Last(Writers(t))].value)

(***************************************************************************)
(* C10                                                                     *)
(***************************************************************************)
\* C10: a mapping that reads the path an earlier mapping of the same run has
\* written to finds the object written there, not the string of the input:
\* it fails on the type, and with fail_on_error set the run is rolled back.
C10_ReadsCurrentEvent ==
    \A j, k \in DOMAIN calls :
        (j < k /\ calls[j].wrote /\ TargetOf(calls[j]) = calls[k].From)
            => /\ calls[k].err.kind = "type"
               /\ p.FailOnError =>
                     /\ pc = "failed"
                     /\ err = calls[k].err
                     /\ ExceptUnder(event, {ErrorMessageKey})
                            = ExceptUnder(input, {ErrorMessageKey})

\* A strict run rolled back because the second mapping read what the first
\* had written, the input holding a parseable string there.
C10_Witness ==
    /\ p.FailOnError
    /\ pc = "failed"
    /\ \E j, k \in DOMAIN calls :
          /\ j < k
          /\ calls[j].wrote
          /\ TargetOf(calls[j]) = calls[k].From
          /\ calls[k].err.kind = "type"
          /\ LET got == GetValue(input, calls[k].From)
             IN  got.err = Nil /\ got.v.t = "str" /\ UrlParse(got.v.s).err = Nil

(***************************************************************************)
(* C9                                                                      *)
(***************************************************************************)
\* The fields option is absent or empty, or one of its entries has no from.
BadFields(c) ==
    \/ ~c.fields.set
    \/ c.fields.v = <<>>
    \/ \E i \in DOMAIN c.fields.v : ~c.fields.v[i].from.set

\* C9: construction fails when fields is absent or empty, when an entry has
\* no from, and when the configuration has a key that is not recognized; a
\* processor that is constructed has a mapping, no empty target, and
\* ignore_missing false and fail_on_error true unless they were given.
C9_Claimed ==
    /\ (pc \in {"idle", "rejected"} /\ (BadFields(raw) \/ raw.unknown))
          => (pc = "rejected" /\ newErr # Nil)
    /\ pc = "idle"
          => /\ p.Fields # <<>>
             /\ \A t \in Targets(p) : t # <<>>
             /\ p.IgnoreMissing = OrElse(raw.ignore_missing, FALSE)
             /\ p.FailOnError = OrElse(raw.fail_on_error, TRUE)

====
